---- MODULE Spec2Model ----
(***************************************************************************)
(* Beam-search transduction of an acoustic piano roll (decode.py) and the  *)
(* ranked enumeration of binary frame samples it is built on.              *)
(*                                                                         *)
(* Numbers.  Probabilities are fractions over a fixed denominator: an      *)
(* acoustic or language value is k/ProbDen, a weight is k/WDen, so a        *)
(* combined probability p = w_a*acoustic + w_l*language is k/Den with      *)
(* Den = ProbDen*WDen.  Logarithms are fixed point, 1000*ln(x) rounded,     *)
(* with the IEEE-754 specials numpy produces (inf, -inf, nan) kept as      *)
(* distinguished values and propagated by FAdd/FSub/FLt/FEq.               *)
(*                                                                         *)
(* Two specifications.  SpecEnum steps through one enumerate_samples call  *)
(* (one action per next() of the generator).  Spec runs the frame loops of *)
(* decode.decode and of create_blending_data.get_weight_data, one action   *)
(* per loop iteration; the beam, the states and the language model are     *)
(* not part of the sources at hand and follow their documented contracts.  *)
(***************************************************************************)
EXTENDS Integers, Sequences, FiniteSets, TLC

(* ---------------------------- bounds ----------------------------------- *)
NumPitch == 2
HalfDen == 1
WDen == 2

ProbDen == 2 * HalfDen
Den == ProbDen * WDen
Pitches == 0 .. (NumPitch - 1)
ProbVals == 0 .. ProbDen
ProbVectors == [Pitches -> ProbVals]
Weights == { w \in (0 .. WDen) \X (0 .. WDen) : w[1] + w[2] = WDen }

(* ------------------------ IEEE-754 values ------------------------------ *)
PosInf == 100000000
NegInf == -100000000
NaN == 999999999

IsNaN(x) == x = NaN
IsFinite(x) == x # NaN /\ x # PosInf /\ x # NegInf

FNeg(x) ==
  IF x = NaN THEN NaN
  ELSE IF x = PosInf THEN NegInf
  ELSE IF x = NegInf THEN PosInf
  ELSE 0 - x

FAdd(x, y) ==
  IF x = NaN \/ y = NaN THEN NaN
  ELSE IF x = PosInf THEN (IF y = NegInf THEN NaN ELSE PosInf)
  ELSE IF x = NegInf THEN (IF y = PosInf THEN NaN ELSE NegInf)
  ELSE IF y = PosInf \/ y = NegInf THEN y
  ELSE x + y

FSub(x, y) == FAdd(x, FNeg(y))

FAbs(x) ==
  IF x = NaN THEN NaN
  ELSE IF x = NegInf THEN PosInf
  ELSE IF x < 0 THEN 0 - x ELSE x

FLt(x, y) == x # NaN /\ y # NaN /\ x < y
FLe(x, y) == x # NaN /\ y # NaN /\ x <= y
FGt(x, y) == FLt(y, x)
FEq(x, y) == x # NaN /\ y # NaN /\ x = y

(* 1000 * ln(k), rounded, for k = 1 .. 24 *)
LnT ==
  << 0, 693, 1099, 1386, 1609, 1792, 1946, 2079, 2197, 2303, 2398, 2485,
     2565, 2639, 2708, 2773, 2833, 2890, 2944, 2996, 3045, 3091, 3135, 3178 >>

(* np.log(k/Den): -inf at 0 *)
FLog(k) == IF k = 0 THEN NegInf ELSE LnT[k] - LnT[Den]

(* np.log(a / b) for a/Den, b/Den: a/0 is inf (nan for 0/0), log(0) is -inf *)
FLogRatio(a, b) ==
  IF b = 0 THEN (IF a = 0 THEN NaN ELSE PosInf)
  ELSE IF a = 0 THEN NegInf
  ELSE LnT[a] - LnT[b]

RECURSIVE FSum(_, _)
(* np.sum of f over the index set 0 .. n-1 *)
FSum(f, n) == IF n = 0 THEN 0 ELSE FAdd(FSum(f, n - 1), f[n - 1])

(* ------------------------- mixture, get_log_prob ----------------------- *)
Mix(acoustic, language, weight) ==
  [i \in Pitches |-> weight[1] * acoustic[i] + weight[2] * language[i]]

NotMix(acoustic, language, weight) ==
  [i \in Pitches |-> weight[1] * (ProbDen - acoustic[i])
                       + weight[2] * (ProbDen - language[i])]

Binarize(sample) == [i \in Pitches |-> IF i \in sample THEN 1 ELSE 0]

(* the log-odds of the chosen bits instead of their log-probabilities *)
get_log_prob_odds(sample, acoustic, language, weight) ==
  LET p == Mix(acoustic, language, weight)
      not_p == NotMix(acoustic, language, weight)
  IN FSum([i \in Pitches |-> IF sample[i] = 1 THEN FLogRatio(p[i], not_p[i])
                                              ELSE FLogRatio(not_p[i], p[i])],
          NumPitch)

get_log_prob(sample, acoustic, language, weight) ==
  LET p == Mix(acoustic, language, weight)
      not_p == NotMix(acoustic, language, weight)
  IN FSum([i \in Pitches |-> IF sample[i] = 1 THEN FLog(p[i]) ELSE FLog(not_p[i])],
          NumPitch)

(* ------------------------- enumerate_samples --------------------------- *)
(* L = np.abs(np.log(p / not_p)) *)
Penalty(p, not_p) == [i \in Pitches |-> FAbs(FLogRatio(p[i], not_p[i]))]

(* the penalties left in index order *)
ArgSort_unsorted(L) == [k \in Pitches |-> k]

(* R = L.argsort(): position k holds the index of the k-th smallest penalty *)
(* (insertion sort for short arrays: equal penalties keep index order).    *)
ArgSort(L) ==
  LET rank(i) == Cardinality({ j \in Pitches :
                      FLt(L[j], L[i]) \/ (L[j] = L[i] /\ j < i) })
  IN [k \in Pitches |-> CHOOSE i \in Pitches : rank(i) = k]

SetXor(a, b) == (a \ b) \cup (b \ a)

SetMax(s) == CHOOSE x \in s : \A y \in s : y <= x

(* Python's a < b on the queue entries (l, num, v): the first unequal item *)
(* decides; nan is unequal to everything and smaller than nothing.         *)
TupleLt(a, b) ==
  IF ~FEq(a.l, b.l) THEN FLt(a.l, b.l)
  ELSE IF a.num # b.num THEN a.num < b.num
  ELSE FALSE

(* the comparison reaches the arrays v: numpy raises ValueError *)
TupleCmpRaises(a, b) == FEq(a.l, b.l) /\ a.num = b.num

RECURSIVE SiftDown(_, _, _, _)
(* heapq._siftdown, positions 1-based *)
SiftDown(heap, startpos, pos, newitem) ==
  IF pos > startpos /\ TupleLt(newitem, heap[pos \div 2])
  THEN SiftDown([heap EXCEPT ![pos] = heap[pos \div 2]], startpos, pos \div 2, newitem)
  ELSE [heap EXCEPT ![pos] = newitem]

RECURSIVE SiftUp(_, _, _, _)
(* heapq._siftup, positions 1-based *)
SiftUp(heap, startpos, pos, newitem) ==
  LET childpos == 2 * pos
      rightpos == childpos + 1
      c == IF rightpos <= Len(heap) /\ ~TupleLt(heap[childpos], heap[rightpos])
           THEN rightpos ELSE childpos
  IN IF childpos <= Len(heap)
     THEN SiftUp([heap EXCEPT ![pos] = heap[c]], startpos, c, newitem)
     ELSE SiftDown([heap EXCEPT ![pos] = newitem], startpos, pos, newitem)

(* q.put(item): heapq.heappush *)
HeapPush(heap, item) == SiftDown(Append(heap, item), 1, Len(heap) + 1, item)

(* q.get(): heapq.heappop, as [item, heap] *)
HeapPop(heap) ==
  LET lastelt == heap[Len(heap)]
      rest == SubSeq(heap, 1, Len(heap) - 1)
  IN IF rest = << >>
     THEN [item |-> lastelt, heap |-> << >>]
     ELSE [item |-> rest[1], heap |-> SiftUp([rest EXCEPT ![1] = lastelt], 1, 1, lastelt)]

QEntry(l, num, v) == [l |-> l, num |-> num, v |-> v]

(* the greedy assignment taking the indices with p >= not_p *)
GenFirst_ties(p, not_p) ==
  LET L == Penalty(p, not_p)
      R == ArgSort(L)
      maxp == [i \in Pitches |-> IF p[i] > not_p[i] THEN p[i] ELSE not_p[i]]
  IN [ pc       |-> "first",
       v_0      |-> { i \in Pitches : p[i] >= not_p[i] },
       l_0      |-> FSum([i \in Pitches |-> FLog(maxp[i])], NumPitch),
       R        |-> R,
       L_sorted |-> [k \in Pitches |-> L[R[k]]],
       num      |-> 1,
       q        |-> << >>,
       cur      |-> QEntry(0, 0, {}),
       log_prob |-> FSum([i \in Pitches |-> FLog(maxp[i])], NumPitch),
       sample   |-> { i \in Pitches : p[i] >= not_p[i] } ]

(* The generator after its first next(): suspended at the yield of the     *)
(* greedy assignment.  R and L_sorted are pure functions of p and not_p    *)
(* and are kept in the record from the start.                               *)
GenFirst(p, not_p) ==
  LET L == Penalty(p, not_p)
      R == ArgSort(L)
      maxp == [i \in Pitches |-> IF p[i] > not_p[i] THEN p[i] ELSE not_p[i]]
  IN [ pc       |-> "first",
       v_0      |-> { i \in Pitches : p[i] > not_p[i] },
       l_0      |-> FSum([i \in Pitches |-> FLog(maxp[i])], NumPitch),
       R        |-> R,
       L_sorted |-> [k \in Pitches |-> L[R[k]]],
       num      |-> 1,
       q        |-> << >>,
       cur      |-> QEntry(0, 0, {}),
       log_prob |-> FSum([i \in Pitches |-> FLog(maxp[i])], NumPitch),
       sample   |-> { i \in Pitches : p[i] > not_p[i] } ]

(* the second successor keeping index i in the flip set *)
GenPush_noSwap(g) ==
  IF g.pc = "first"
  THEN [g EXCEPT !.q = HeapPush(<< >>, QEntry(g.L_sorted[0], 0, {0}))]
  ELSE LET l == g.cur.l
           v == g.cur.v
           i == SetMax(v)
       IN IF i + 1 < NumPitch
          THEN [g EXCEPT
                 !.q = HeapPush(
                         HeapPush(g.q, QEntry(FAdd(l, g.L_sorted[i + 1]), g.num,
                                              v \cup {i + 1})),
                         QEntry(FSub(FAdd(l, g.L_sorted[i + 1]), g.L_sorted[i]),
                                g.num + 1, v \cup {i + 1})),
                 !.num = g.num + 2]
          ELSE g

(* both successors pushed with the same counter, advanced by 1 *)
GenPush_sameNum(g) ==
  IF g.pc = "first"
  THEN [g EXCEPT !.q = HeapPush(<< >>, QEntry(g.L_sorted[0], 0, {0}))]
  ELSE LET l == g.cur.l
           v == g.cur.v
           i == SetMax(v)
       IN IF i + 1 < NumPitch
          THEN [g EXCEPT
                 !.q = HeapPush(
                         HeapPush(g.q, QEntry(FAdd(l, g.L_sorted[i + 1]), g.num,
                                              v \cup {i + 1})),
                         QEntry(FSub(FAdd(l, g.L_sorted[i + 1]), g.L_sorted[i]),
                                g.num, (v \cup {i + 1}) \ {i})),
                 !.num = g.num + 1]
          ELSE g

(* The code that runs between the previous yield and the loop head: the    *)
(* set-up of the queue after the greedy yield, the two pushes after a      *)
(* yield inside the loop.                                                  *)
GenPush(g) ==
  IF g.pc = "first"
  THEN [g EXCEPT !.q = HeapPush(<< >>, QEntry(g.L_sorted[0], 0, {0}))]
  ELSE LET l == g.cur.l
           v == g.cur.v
           i == SetMax(v)
       IN IF i + 1 < NumPitch
          THEN [g EXCEPT
                 !.q = HeapPush(
                         HeapPush(g.q, QEntry(FAdd(l, g.L_sorted[i + 1]), g.num,
                                              v \cup {i + 1})),
                         QEntry(FSub(FAdd(l, g.L_sorted[i + 1]), g.L_sorted[i]),
                                g.num + 1, (v \cup {i + 1}) \ {i})),
                 !.num = g.num + 2]
          ELSE g

(* next() on a suspended generator: run to the next yield, or to the end *)
GenNext(g) ==
  LET h == GenPush(g)
      popped == HeapPop(h.q)
  IN IF h.q = << >>
     THEN [h EXCEPT !.pc = "done"]
     ELSE [h EXCEPT !.pc = "loop",
                    !.q = popped.heap,
                    !.cur = popped.item,
                    !.log_prob = FSub(h.l_0, popped.item.l),
                    !.sample = SetXor(h.v_0, { h.R[k] : k \in popped.item.v })]

(* enumerate_samples(acoustic, language, weight), advanced to its first yield *)
enumerate_samples(acoustic, language, weight) ==
  GenFirst(Mix(acoustic, language, weight), NotMix(acoustic, language, weight))

RECURSIVE Islice_padded(_, _)
(* the slice filled up to n elements by repeating the last one yielded *)
Islice_padded(g, n) ==
  IF n <= 0 THEN << >>
  ELSE << [log_prob |-> g.log_prob, sample |-> g.sample] >>
       \o Islice_padded(IF GenNext(g).pc = "done" THEN g ELSE GenNext(g), n - 1)

RECURSIVE Islice(_, _)
(* list(itertools.islice(g, n)) for a generator g suspended at a yield (or *)
(* finished): the elements it yields, at most n of them                    *)
Islice(g, n) ==
  IF n <= 0 \/ g.pc = "done" THEN << >>
  ELSE << [log_prob |-> g.log_prob, sample |-> g.sample] >> \o Islice(GenNext(g), n - 1)

(* ------------------ sampling.enumerate_samples (clamped) ---------------- *)
(* log of a probability clipped to [eps, 1 - eps]: log(eps) is a large     *)
(* finite penalty, log(1 - eps) rounds to 0 in fixed point                 *)
LogEps == -20723

ClampedLog(k) == IF k = 0 THEN LogEps ELSE IF k = Den THEN 0 ELSE FLog(k)

(* penalty |log(p / not_p)| of the clipped probabilities *)
ClampedPenalty(p, not_p) ==
  [i \in Pitches |-> FAbs(ClampedLog(p[i]) - ClampedLog(not_p[i]))]

(* sampling.enumerate_samples(prior), advanced to its first yield: the    *)
(* same search on a combined probability vector clipped away from 0 and 1  *)
sampling_enumerate_samples(p) ==
  LET not_p == [i \in Pitches |-> Den - p[i]]
      L == ClampedPenalty(p, not_p)
      R == ArgSort(L)
      l_0 == FSum([i \in Pitches |->
                     ClampedLog(IF p[i] > not_p[i] THEN p[i] ELSE not_p[i])], NumPitch)
  IN [ pc       |-> "first",
       v_0      |-> { i \in Pitches : p[i] > not_p[i] },
       l_0      |-> l_0,
       R        |-> R,
       L_sorted |-> [k \in Pitches |-> L[R[k]]],
       num      |-> 1,
       q        |-> << >>,
       cur      |-> QEntry(0, 0, {}),
       log_prob |-> l_0,
       sample   |-> { i \in Pitches : p[i] > not_p[i] } ]

(* ------------------------------ State, Beam ----------------------------- *)
MaxFrames == 2
MaxBeam == 2
MaxBranch == 2
MaxHash == 2

LMs == {"neutral", "repeat"}

(* The language model's prediction for the next frame after it has       *)
(* consumed the samples in hidden (its recurrent state)                   *)
LMPrior(lm, hidden) ==
  IF hidden = << >> \/ lm = "neutral" THEN [i \in Pitches |-> HalfDen]
  ELSE LET s == hidden[Len(hidden)]
       IN [i \in Pitches |-> IF s[i] = 1 THEN ProbDen ELSE 0]

(* model.run_one_step on one (hidden_state, sample) pair *)
run_one_step(lm, hidden_state, sample) ==
  LET h == Append(hidden_state, sample)
  IN [hidden_state |-> h, prior |-> LMPrior(lm, h)]

BeamState(clp, history, hidden_state, prior) ==
  [ cumulative_log_prob |-> clp, history |-> history,
    hidden_state |-> hidden_state, prior |-> prior ]

(* Beam.add_initial_state: one state, empty history, score 0, neutral prior *)
add_initial_state(lm) == << BeamState(0, << >>, << >>, LMPrior(lm, << >>)) >>

(* State.transition(sample, log_prob, hidden_state, prior) *)
transition(state, sample, log_prob, hidden_state, prior) ==
  BeamState(FAdd(state.cumulative_log_prob, log_prob),
            Append(state.history, sample), hidden_state, prior)

(* hash key: the last h accepted samples (all of them when there are     *)
(* fewer than h)                                                           *)
HashKey(state, h) ==
  LET n == Len(state.history)
  IN SubSeq(state.history, IF n > h THEN n - h + 1 ELSE 1, n)

(* Beam.cut_to_size(beam_size, hash_length): merge by hash key (h = 0: no *)
(* hash length given), sort by score descending (stable), truncate         *)
cut_to_size(b, k, h) ==
  LET n == Len(b)
      better(i, j) == \/ FGt(b[i].cumulative_log_prob, b[j].cumulative_log_prob)
                      \/ /\ b[i].cumulative_log_prob = b[j].cumulative_log_prob
                         /\ i < j
      keep == { i \in 1 .. n :
                  h = 0 \/ ~\E j \in 1 .. n :
                             /\ j # i
                             /\ HashKey(b[j], h) = HashKey(b[i], h)
                             /\ better(j, i) }
      rank(i) == Cardinality({ j \in keep : better(j, i) })
      m == IF k < Cardinality(keep) THEN k ELSE Cardinality(keep)
  IN [r \in 1 .. m |-> b[CHOOSE i \in keep : rank(i) = r - 1]]

RECURSIVE Flatten(_)
Flatten(ss) == IF ss = << >> THEN << >> ELSE Head(ss) \o Flatten(Tail(ss))

Min(a, b) == IF a < b THEN a ELSE b

(* ------------------------------ variables ------------------------------- *)
VARIABLES
  acoustic, language, weight, gen, yielded,   \* one enumerate_samples call
  driver,            \* "decode" (decode.decode), "get_weight_data", "enumerate"
  lm,                \* the language model behind model / sess
  branch_factor, beam_size, sampling_method, hash_length, gt_only,
  is_union,          \* the outcome of  sampling_method is "union"
  frame_num,         \* frames consumed so far
  frame,             \* the acoustic frame of the last iteration
  beam,              \* Beam.beam
  batch,             \* states / samples / log_probs of the last iteration, zipped
  new_beam,          \* the successor beam of the last iteration before it was cut
  loop_state,        \* get_weight_data's local  state  (survives its for loops)
  gt,                \* the ground-truth frames get_weight_data has consumed
  status,            \* "running", "returned", or the exception raised
  result             \* the piano roll returned by decode

evars == << acoustic, language, gen, yielded >>
cvars == << driver, lm, branch_factor, beam_size, sampling_method, hash_length,
            gt_only, is_union >>
dvars == << frame_num, frame, beam, batch, new_beam, loop_state, gt, status, result >>
vars == << evars, weight, cvars, dvars >>

BinVectors == [Pitches -> {0, 1}]
NoFrame == [i \in Pitches |-> 0]
NoState == BeamState(0, << >>, << >>, NoFrame)

(* acoustic frames fed to the decoders: the last pitch at 1 - v, the     *)
(* others at v, for every value v (certain, undecided, and in between)    *)
Frames ==
  { [i \in Pitches |-> IF i = NumPitch - 1 THEN ProbDen - v ELSE v] : v \in ProbVals }

(* ground-truth frames fed to get_weight_data *)
GtFrames == { f \in BinVectors : \A i \in Pitches : i > 0 => f[i - 1] <= f[i] }

(* branch factors given to decode: the small ones, and one larger than    *)
(* the number of samples a frame has                                       *)
BranchFactors == (0 .. MaxBranch) \cup {2 ^ NumPitch + 1}

(* weights given to the decoders: acoustic only, language only, a blend *)
DecodeWeights == { << WDen, 0 >>, << 0, WDen >>, << 1, WDen - 1 >> }

(* --------------------------- decode.decode ------------------------------ *)
(* the branch factor left as configured *)
EffectiveBranch_unhalved(method, bf) == bf

(* line 56-57: branch_factor = int(branch_factor / 2) under union sampling *)
EffectiveBranch(method, bf) == IF method = "union" THEN bf \div 2 ELSE bf

Candidate(state, binary_sample, f, w) ==
  [ state |-> state, sample |-> binary_sample,
    log_prob |-> get_log_prob(binary_sample, f, state.prior, w) ]

(* the shared samples enumerated from the first state's prior alone *)
SharedPool_languageOnly(b, f, bf) ==
  Islice(enumerate_samples(f, b[1].prior, << 0, WDen >>), bf)

(* lines 72-74: the samples shared by every hypothesis *)
SharedPool(b, f, bf) == Islice(enumerate_samples(f, b[1].prior, << WDen, 0 >>), bf)

(* lines 74-85: every shared sample paired with every state of the beam *)
SharedCandidates(b, f, w, bf) ==
  LET pool == SharedPool(b, f, bf)
  IN Flatten([k \in 1 .. Len(pool) |->
                [j \in 1 .. Len(b) |-> Candidate(b[j], Binarize(pool[k].sample), f, w)]])

(* the samples of one state drawn from its language prior alone *)
StatePool_languageOnly(state, f, w, bf, isu) ==
  Islice(enumerate_samples(f, state.prior, << 0, WDen >>), bf)

(* lines 89-91: the samples of one state *)
StatePool(state, f, w, bf, isu) ==
  Islice(enumerate_samples(f, state.prior, IF isu THEN << 0, WDen >> ELSE w), bf)

(* line 96,  binary_sample in unique_samples : list membership compares   *)
(* with ==, and the truth value of an array of several elements raises    *)
MembershipRaises(unique_samples) == unique_samples # << >> /\ NumPitch > 1

IsMember(x, unique_samples) == \E k \in 1 .. Len(unique_samples) : unique_samples[k] = x

(* lines 88-99 *)
StateCandidates(b, f, w, bf, isu, unique_samples) ==
  Flatten([j \in 1 .. Len(b) |->
    LET pool == StatePool(b[j], f, w, bf, isu)
        cands == [k \in 1 .. Len(pool) |-> Candidate(b[j], Binarize(pool[k].sample), f, w)]
        kept(c) == ~(isu /\ IsMember(c.sample, unique_samples))
    IN SelectSeq(cands, kept)])

(* the parent states added to the new beam without the transition *)
Successors_noTransition(m, bt) == [k \in 1 .. Len(bt) |-> bt[k].state]

(* lines 107-109: the successor beam, before it is cut *)
Successors(m, bt) ==
  [k \in 1 .. Len(bt) |->
     LET r == run_one_step(m, bt[k].state.hidden_state, bt[k].sample)
     IN transition(bt[k].state, bt[k].sample, bt[k].log_prob, r.hidden_state, r.prior)]

(* the beam sorted and merged but not truncated *)
DecodeCut_uncut(b, k) == cut_to_size(b, Len(b), 0)

(* line 111 *)
DecodeCut(b, k) == cut_to_size(b, k, 0)

(* one iteration of the loop over the frames, lines 62-111 *)
DecodeFrame ==
  /\ driver = "decode"
  /\ status = "running"
  /\ frame_num < MaxFrames
  /\ \E f \in Frames :
       LET bf == EffectiveBranch(sampling_method, branch_factor)
           shared == is_union \/ weight[1] = WDen
           perstate == is_union \/ weight[1] # WDen
           unique_samples ==
             IF is_union
             THEN LET pool == SharedPool(beam, f, bf)
                  IN [k \in 1 .. Len(pool) |-> Binarize(pool[k].sample)]
             ELSE << >>
           batch1 == IF shared THEN SharedCandidates(beam, f, weight, bf) ELSE << >>
           batch2 == IF perstate
                     THEN StateCandidates(beam, f, weight, bf, is_union, unique_samples)
                     ELSE << >>
           all == batch1 \o batch2
       IN /\ frame' = f
          /\ IF shared /\ beam = << >>
             THEN \* beam.beam[0] on an empty beam
                  /\ status' = "IndexError"
                  /\ UNCHANGED << frame_num, beam, batch, new_beam >>
             ELSE IF perstate /\ is_union /\ bf > 0 /\ beam # << >>
                     /\ MembershipRaises(unique_samples)
             THEN /\ status' = "ValueError"
                  /\ batch' = batch1
                  /\ UNCHANGED << frame_num, beam, new_beam >>
             ELSE \E accepted \in (IF all = << >> THEN BOOLEAN ELSE {TRUE}) :
                    IF accepted
                    THEN /\ batch' = all
                         /\ new_beam' = Successors(lm, all)
                         /\ beam' = DecodeCut(new_beam', beam_size)
                         /\ frame_num' = frame_num + 1
                         /\ status' = "running"
                    ELSE \* the scorer rejects an empty batch
                         /\ status' = "ScorerError"
                         /\ batch' = all
                         /\ UNCHANGED << frame_num, beam, new_beam >>
  /\ UNCHANGED << evars, weight, cvars, loop_state, gt, result >>

(* Beam.get_top_state: the state with the highest score *)
get_top_state(b) ==
  b[CHOOSE i \in 1 .. Len(b) :
      \A j \in 1 .. Len(b) :
        ~FGt(b[j].cumulative_log_prob, b[i].cumulative_log_prob)
        /\ (b[j].cumulative_log_prob = b[i].cumulative_log_prob => i <= j)]

(* State.get_piano_roll: the accepted samples, one column per frame *)
get_piano_roll(state) == state.history

(* line 113: beam.get_top_state().get_piano_roll(), once the frames are    *)
(* used up (the input may have any number of frames up to MaxFrames)       *)
DecodeReturn ==
  /\ driver = "decode"
  /\ status = "running"
  /\ IF beam = << >>
     THEN status' = "IndexError" /\ UNCHANGED result
     ELSE status' = "returned" /\ result' = get_piano_roll(get_top_state(beam))
  /\ UNCHANGED << evars, weight, cvars, frame_num, frame, beam, batch, new_beam, loop_state, gt >>

(* ------------------- create_blending_data.get_weight_data --------------- *)
(* decode.run_lstm: the language model consumes each state's last sample   *)
run_lstm(m, b) ==
  [j \in 1 .. Len(b) |->
     LET r == run_one_step(m, b[j].hidden_state, b[j].history[Len(b[j].history)])
     IN [b[j] EXCEPT !.hidden_state = r.hidden_state, !.prior = r.prior]]

(* lines 245-265: the candidates of every state, from the ranked search   *)
(* on the combined prior                                                   *)
WeightDataCandidates(b, f, w, bf) ==
  Flatten([j \in 1 .. Len(b) |->
    LET pool == Islice(sampling_enumerate_samples(Mix(f, b[j].prior, w)), bf)
    IN [k \in 1 .. Len(pool) |->
          [ state |-> b[j], sample |-> Binarize(pool[k].sample),
            log_prob |-> pool[k].log_prob ]]])

(* lines 242, 265: state.transition(sample, log_prob) keeps the parent's  *)
(* hidden state and prior until run_lstm refreshes them                    *)
WeightDataSuccessors(bt) ==
  [k \in 1 .. Len(bt) |->
     transition(bt[k].state, bt[k].sample, bt[k].log_prob,
                bt[k].state.hidden_state, bt[k].state.prior)]

(* the ground-truth sample scored by the blended prior instead of 0.0 *)
GtOnlyCandidates_scored(state, gt_frame, f, w) ==
  << [ state |-> state, sample |-> gt_frame,
       log_prob |-> get_log_prob(gt_frame, f, state.prior, w) ] >>

(* lines 241-242: the one transition onto the ground-truth frame, made    *)
(* from whatever the name  state  is bound to after the loop of line 207   *)
GtOnlyCandidates(state, gt_frame, f, w) ==
  << [state |-> state, sample |-> gt_frame, log_prob |-> 0] >>

(* the cut without the hash length *)
WeightDataCut_noHash(b, k, h, n) == cut_to_size(b, k, 0)

(* line 267 *)
WeightDataCut(b, k, h, n) == cut_to_size(b, k, Min(h, n + 1))

(* one iteration of the loop over the frames, lines 195-268 (the x, y, d  *)
(* data collected in lines 207-236 do not feed back into the beam, and    *)
(* with gt_only nothing else reads the acoustic frame)                    *)
WeightDataFrame ==
  /\ driver = "get_weight_data"
  /\ status = "running"
  /\ frame_num < MaxFrames
  /\ \E f \in (IF gt_only THEN {frame} ELSE Frames),
        gt_frame \in (IF gt_only THEN GtFrames ELSE {NoFrame}) :
       LET b1 == IF frame_num # 0 THEN run_lstm(lm, beam) ELSE beam
           \* the loop variable of line 207 after the loop
           st == IF b1 # << >> THEN b1[Len(b1)] ELSE loop_state
           all == IF gt_only
                  THEN GtOnlyCandidates(st, gt_frame, f, weight)
                  ELSE WeightDataCandidates(b1, f, weight, branch_factor)
       IN /\ frame' = f
          /\ batch' = all
          /\ loop_state' = st
          /\ gt' = IF gt_only THEN Append(gt, gt_frame) ELSE gt
          /\ new_beam' = WeightDataSuccessors(all)
          /\ beam' = WeightDataCut(new_beam', beam_size, hash_length, frame_num)
          /\ frame_num' = frame_num + 1
  /\ UNCHANGED << evars, weight, cvars, status, result >>

(* line 270 *)
WeightDataReturn ==
  /\ driver = "get_weight_data"
  /\ status = "running"
  /\ status' = "returned"
  /\ UNCHANGED << evars, weight, cvars, frame_num, frame, beam, batch, new_beam, loop_state, gt, result >>

(* ---------------------------- specifications ---------------------------- *)
EnumIdle ==
  /\ acoustic = NoFrame
  /\ language = NoFrame
  /\ gen = [sampling_enumerate_samples([i \in Pitches |-> 0]) EXCEPT !.pc = "idle"]
  /\ yielded = << >>

DecodeIdle ==
  /\ driver = "enumerate"
  /\ lm = "neutral"
  /\ branch_factor = 0
  /\ beam_size = 0
  /\ sampling_method = "joint"
  /\ hash_length = 0
  /\ gt_only = FALSE
  /\ is_union = FALSE
  /\ frame_num = 0
  /\ frame = NoFrame
  /\ beam = << >>
  /\ batch = << >>
  /\ new_beam = << >>
  /\ loop_state = NoState
  /\ gt = << >>
  /\ status = "idle"
  /\ result = << >>

(* the arguments of decode / get_weight_data, and the beam of lines 59-60 *)
(* (decode.py) and 180-181 (create_blending_data.py)                       *)
Init ==
  /\ EnumIdle
  /\ driver \in {"decode", "get_weight_data"}
  /\ lm \in LMs
  /\ weight \in DecodeWeights
  /\ branch_factor \in (IF driver = "decode" THEN BranchFactors ELSE 0 .. MaxBranch)
  /\ beam_size \in 0 .. MaxBeam
  /\ sampling_method \in (IF driver = "decode" THEN {"joint", "union"} ELSE {"joint"})
  /\ is_union \in (IF sampling_method = "union" THEN BOOLEAN ELSE {FALSE})
  /\ hash_length \in (IF driver = "decode" THEN {0} ELSE 1 .. MaxHash)
  /\ gt_only \in (IF driver = "decode" THEN {FALSE} ELSE BOOLEAN)
  /\ frame_num = 0
  /\ frame = NoFrame
  /\ beam = add_initial_state(lm)
  /\ batch = << >>
  /\ new_beam = << >>
  /\ loop_state = NoState
  /\ gt = << >>
  /\ status = "running"
  /\ result = << >>

Next == DecodeFrame \/ DecodeReturn \/ WeightDataFrame \/ WeightDataReturn

Spec == Init /\ [][Next]_vars

(* ------------------ one enumerate_samples call, stepwise ---------------- *)
(* language vectors given to the call: per-pitch values in index order     *)
Languages == { f \in ProbVectors : \A i \in Pitches : i > 0 => f[i - 1] <= f[i] }

EnumInit ==
  /\ DecodeIdle
  /\ acoustic \in ProbVectors
  /\ language \in Languages
  /\ weight \in Weights
  /\ gen = [enumerate_samples(acoustic, language, weight) EXCEPT !.pc = "start"]
  /\ yielded = << >>

(* first next(): lines 180-187 *)
YieldGreedy ==
  /\ gen.pc = "start"
  /\ gen' = [gen EXCEPT !.pc = "first"]
  /\ yielded' = << [log_prob |-> gen.log_prob, sample |-> gen.sample] >>
  /\ UNCHANGED << acoustic, language, weight, cvars, dvars >>

(* a later next() that yields: lines 189-201 the first time, 203-207 and  *)
(* 199-201 after that                                                      *)
YieldNext ==
  /\ gen.pc \in {"first", "loop"}
  /\ GenNext(gen).pc = "loop"
  /\ gen' = GenNext(gen)
  /\ yielded' = Append(yielded, [log_prob |-> gen'.log_prob, sample |-> gen'.sample])
  /\ UNCHANGED << acoustic, language, weight, cvars, dvars >>

(* a later next() that finds the queue empty: the generator returns *)
Exhausted ==
  /\ gen.pc \in {"first", "loop"}
  /\ GenNext(gen).pc = "done"
  /\ gen' = GenNext(gen)
  /\ UNCHANGED << acoustic, language, weight, yielded, cvars, dvars >>

EnumNext == YieldGreedy \/ YieldNext \/ Exhausted

SpecEnum == EnumInit /\ [][EnumNext]_vars

(* ======================= properties: enumerate_samples ================== *)
LogProbs == [k \in 1 .. Len(yielded) |-> yielded[k].log_prob]

(* C1: the log-probabilities yielded by one call are in non-increasing     *)
(* order, each less than or equal to the one yielded before it.            *)
C1_NonIncreasing ==
  \A k \in 2 .. Len(yielded) : FLe(LogProbs[k], LogProbs[k - 1])

(* C2 as claimed: every yielded log_prob is strictly smaller than the one  *)
(* yielded before it.                                                      *)
C2_StrictlyDecreasing ==
  \A k \in 2 .. Len(yielded) : FLt(LogProbs[k], LogProbs[k - 1])

(* C2 amended: no yielded log_prob is greater than the one yielded before  *)
(* it (equal values occur).                                                *)
C2_NeverGreater ==
  \A k \in 2 .. Len(yielded) : ~FGt(LogProbs[k], LogProbs[k - 1])

(* a drained call in which two neighbours tie and two others strictly fall *)
C2_Witness ==
  /\ gen.pc = "done"
  /\ \E k \in 2 .. Len(yielded) : FEq(LogProbs[k], LogProbs[k - 1])
  /\ \E k \in 2 .. Len(yielded) :
       IsFinite(LogProbs[k]) /\ FLt(LogProbs[k], LogProbs[k - 1])

C4_FirstIsGreedyMAP ==
  Len(yielded) >= 1 =>
    LET p == Mix(acoustic, language, weight)
        not_p == NotMix(acoustic, language, weight)
    IN /\ yielded[1].sample = { i \in Pitches : p[i] > not_p[i] }
       /\ yielded[1].log_prob =
            FSum([i \in Pitches |->
                    FLog(IF p[i] > not_p[i] THEN p[i] ELSE not_p[i])], NumPitch)
       /\ \A S \in SUBSET Pitches :
            FLe(get_log_prob(Binarize(S), acoustic, language, weight),
                yielded[1].log_prob)

(* the greedy element of a frame with a tied index and a chosen index *)
C4_Witness ==
  /\ Len(yielded) >= 1
  /\ \E i \in Pitches :
       Mix(acoustic, language, weight)[i] = NotMix(acoustic, language, weight)[i]
  /\ yielded[1].sample # {}
  /\ yielded[1].log_prob < 0

(* C5: every yielded log_prob equals get_log_prob of the binarized sample  *)
(* under the same acoustic, language and weight.                           *)
C5_LogProbIsJoint ==
  \A k \in 1 .. Len(yielded) :
    yielded[k].log_prob =
      get_log_prob(Binarize(yielded[k].sample), acoustic, language, weight)

(* ========================= properties: decoding ========================= *)
(* a frame has been expanded and pruned, and the loop has not failed *)
Pruned == status \in {"running", "returned"} /\ frame_num >= 1

(* the hash length the last pruning step was given (0: none) *)
UsedHash == IF driver = "get_weight_data" THEN Min(hash_length, frame_num) ELSE 0

Score(s) == s.cumulative_log_prob

InBeam(c) == \E i \in 1 .. Len(beam) : beam[i] = c

(* the candidates of the last frame that share c's hash key *)
HashGroup(c) ==
  IF UsedHash = 0 THEN {c}
  ELSE { new_beam[k] : k \in { j \in 1 .. Len(new_beam) :
                               HashKey(new_beam[j], UsedHash) = HashKey(c, UsedHash) } }

Candidates == { new_beam[k] : k \in 1 .. Len(new_beam) }

(* C6: after every pruning step the beam holds at most beam_size states,   *)
(* sorted by cumulative_log_prob descending, all of them candidates of the *)
(* frame, and no discarded distinct-hash candidate scores higher than a    *)
(* kept one.                                                               *)
C6_PrunedBeam ==
  Pruned =>
    /\ Len(beam) <= beam_size
    /\ \A i, j \in 1 .. Len(beam) : i < j => FLe(Score(beam[j]), Score(beam[i]))
    /\ \A i \in 1 .. Len(beam) : beam[i] \in Candidates
    /\ \A c \in Candidates :
         (/\ \A d \in HashGroup(c) : ~InBeam(d)
          /\ \A d \in HashGroup(c) : FLe(Score(d), Score(c)))
         => /\ Len(beam) = beam_size
            /\ \A i \in 1 .. Len(beam) : FLe(Score(c), Score(beam[i]))

(* a pruning step that dropped a candidate for its score and a full beam *)
C6_Witness ==
  /\ Pruned
  /\ frame_num = 2
  /\ Len(beam) = 2
  /\ \E c \in Candidates :
       /\ \A d \in HashGroup(c) : ~InBeam(d)
       /\ FLt(Score(c), Score(beam[2]))
       /\ IsFinite(Score(c))

(* C7: a beam pruned with hash length h never holds two states with the    *)
(* same last h history entries, and of the candidates sharing a hash key   *)
(* only one with the highest cumulative_log_prob remains.                  *)
C7_HashMerged ==
  (Pruned /\ driver = "get_weight_data") =>
    /\ \A i, j \in 1 .. Len(beam) :
         i # j => HashKey(beam[i], UsedHash) # HashKey(beam[j], UsedHash)
    /\ \A i \in 1 .. Len(beam) :
         \A d \in HashGroup(beam[i]) : FLe(Score(d), Score(beam[i]))

(* two candidates with the same hash key and different scores, the better  *)
(* one kept                                                                *)
C7_Witness ==
  /\ Pruned
  /\ driver = "get_weight_data"
  /\ \E i \in 1 .. Len(beam) :
       \E d \in HashGroup(beam[i]) : FLt(Score(d), Score(beam[i]))
  /\ Len(beam) = 2

(* C8: every state in the beam has one history entry per frame processed,  *)
(* its last entry is a sample of the last frame's batch, and the piano     *)
(* roll decode returns has one column per frame.                           *)
C8_HistoryLength ==
  /\ status \in {"running", "returned"} =>
       \A i \in 1 .. Len(beam) : Len(beam[i].history) = frame_num
  /\ Pruned =>
       \A i \in 1 .. Len(beam) :
         \E k \in 1 .. Len(batch) :
           beam[i].history = Append(batch[k].state.history, batch[k].sample)
  /\ (status = "returned" /\ driver = "decode") =>
       /\ Len(result) = frame_num
       /\ \A t \in 1 .. Len(result) : result[t] \in BinVectors

C8_Witness ==
  /\ driver = "decode"
  /\ status = "returned"
  /\ frame_num = 2
  /\ Len(result) = 2
  /\ result[1] # result[2]

(* C9: every transition log_prob is <= 0, each successor's                 *)
(* cumulative_log_prob is its parent's plus the candidate's log_prob, and  *)
(* it is less than or equal to the parent's.                               *)
C9_ScoreNonIncreasing ==
  Pruned =>
    /\ Len(new_beam) = Len(batch)
    /\ \A k \in 1 .. Len(batch) :
         /\ FLe(batch[k].log_prob, 0)
         /\ Score(new_beam[k]) = FAdd(Score(batch[k].state), batch[k].log_prob)
         /\ FLe(Score(new_beam[k]), Score(batch[k].state))
    /\ \A i \in 1 .. Len(beam) : FLe(Score(beam[i]), 0)

(* a second frame whose surviving state scores strictly below its parent,  *)
(* which itself scores below the initial state                             *)
C9_Witness ==
  /\ Pruned
  /\ driver = "decode"
  /\ frame_num = 2
  /\ \E k \in 1 .. Len(batch) :
       /\ InBeam(new_beam[k])
       /\ IsFinite(Score(new_beam[k]))
       /\ Score(new_beam[k]) < Score(batch[k].state)
       /\ Score(batch[k].state) < 0

(* C10: when the beam is empty after the pruning of a frame the decode has *)
(* aborted with an error: it is neither still running nor returned.        *)
C10_EmptyBeamAborts ==
  (driver = "decode" /\ frame_num >= 1 /\ beam = << >>) =>
    status \notin {"running", "returned"}

(* ===================== properties: sampling policies ==================== *)
(* how many candidates of the last batch belong to state s *)
CountFor(s, bt) == Cardinality({ k \in 1 .. Len(bt) : bt[k].state = s })

BatchStates(bt) == { bt[k].state : k \in 1 .. Len(bt) }

(* C11: under union sampling the overlap test of every frame drops the     *)
(* per-state samples that equal a shared sample: the test itself never     *)
(* fails, and the frame's batch holds no (state, sample) pair twice.       *)
C11_UnionDropsOverlap ==
  (driver = "decode" /\ sampling_method = "union") =>
    /\ status # "ValueError"
    /\ \A j, k \in 1 .. Len(batch) :
         j # k => << batch[j].state, batch[j].sample >> # << batch[k].state, batch[k].sample >>

(* every frame so far was decoded and left one state: the one candidate   *)
(* of the frame, made from the first element of the enumerator on the      *)
(* frame and the parent's prior; no assignment scores higher               *)
GreedyFrames ==
  /\ status \in {"running", "returned"}
  /\ frame_num >= 1 =>
       /\ Len(beam) = 1
       /\ Len(batch) = 1
       /\ beam[1] = new_beam[1]
       /\ LET first == enumerate_samples(frame, batch[1].state.prior, weight)
          IN /\ batch[1].sample = Binarize(first.sample)
             /\ batch[1].log_prob = first.log_prob
             /\ beam[1].history[frame_num] = Binarize(first.sample)
       /\ \A x \in BinVectors :
            FLe(get_log_prob(x, frame, batch[1].state.prior, weight), batch[1].log_prob)
       /\ status = "returned" => result = beam[1].history

C13_GtOnlyForced ==
  (driver = "get_weight_data" /\ gt_only /\ frame_num >= 1) =>
    /\ Len(gt) = frame_num
    /\ Len(batch) = 1
    /\ batch[1].log_prob = 0
    /\ batch[1].sample = gt[frame_num]
    /\ \A i \in 1 .. Len(beam) : beam[i].history = gt /\ Score(beam[i]) = 0
    /\ beam_size >= 1 =>
         /\ Len(beam) = 1
         /\ batch[1].state.history = SubSeq(gt, 1, frame_num - 1)

(* two different ground-truth frames forced, under a language model whose  *)
(* prior follows the last sample                                           *)
C13_Witness ==
  /\ driver = "get_weight_data" /\ gt_only
  /\ status = "returned"
  /\ frame_num = 2
  /\ gt[1] # gt[2]
  /\ Len(beam) = 1
  /\ beam[1].history = gt
  /\ batch[1].state.prior # add_initial_state(lm)[1].prior

(* ====================== properties: the scorer call ===================== *)
(* C14: every iteration of the decode loop that reaches the scorer hands   *)
(* it one batch of at least 1 and at most |Beam| x branch_factor           *)
(* (state, sample) pairs, the states taken from the beam, and the i-th     *)
(* successor is the i-th pair's state moved on by the i-th pair's sample   *)
(* and log_prob with the scorer's answer for that pair.                    *)
C14_OneBatchedCall ==
  [][ (DecodeFrame /\ status' \in {"running", "ScorerError"}) =>
        /\ Len(batch') >= 1
        /\ Len(batch') <= Len(beam) * branch_factor
        /\ \A k \in 1 .. Len(batch') : \E j \in 1 .. Len(beam) : batch'[k].state = beam[j]
        /\ status' = "running" =>
             /\ Len(new_beam') = Len(batch')
             /\ \A k \in 1 .. Len(batch') :
                  LET r == run_one_step(lm, batch'[k].state.hidden_state, batch'[k].sample)
                  IN new_beam'[k] = transition(batch'[k].state, batch'[k].sample,
                                               batch'[k].log_prob, r.hidden_state, r.prior)
    ]_vars

(* ================= properties: enumerate_samples, continued ============= *)
(* C15: every flip penalty the call has computed is finite, every log_prob *)
(* it has yielded is finite, and get_log_prob of every yielded sample      *)
(* under the same inputs is finite.                                        *)
C15_ClampedFinite ==
  /\ gen.pc \in {"loop", "done"} =>
       \A i \in Pitches : IsFinite(gen.L_sorted[i])
  /\ \A k \in 1 .. Len(yielded) :
       /\ IsFinite(yielded[k].log_prob)
       /\ IsFinite(get_log_prob(Binarize(yielded[k].sample), acoustic, language, weight))

(* ================= properties: exhaustion and pool sizes ================ *)
(* C16: under joint sampling an iteration over a beam that has a state     *)
(* raises nothing, also when the branch factor is larger than the number   *)
(* of samples, and every state of the beam contributes exactly             *)
(* min(branch_factor, 2^P) candidates to the batch.                        *)
C16_ExhaustionForwardsFewer ==
  [][ (DecodeFrame /\ sampling_method = "joint" /\ beam # << >>) =>
        /\ status' \in {"running", "ScorerError"}
        /\ \A j \in 1 .. Len(beam) :
             CountFor(beam[j], batch') = Min(branch_factor, 2 ^ NumPitch)
        /\ branch_factor >= 1 => status' = "running"
    ]_vars

(* a frame decoded with a branch factor larger than 2^P: the state's 2^P   *)
(* samples, all different, are in the batch                                *)
C16_Witness ==
  /\ driver = "decode" /\ sampling_method = "joint"
  /\ branch_factor > 2 ^ NumPitch
  /\ status = "running"
  /\ frame_num = 2
  /\ Len(beam) = 2
  /\ \E s \in BatchStates(batch) :
       { batch[k].sample : k \in { i \in 1 .. Len(batch) : batch[i].state = s } } = BinVectors

(* C17: every pruning step of the loop is given a hash length, the         *)
(* caller's hash_length clamped to the number of frames processed so far   *)
(* (t + 1 after frame t), which is no more than the history length of any  *)
(* state being pruned.                                                     *)
C17_ClampedHashLength ==
  Pruned =>
    /\ hash_length >= 1
    /\ UsedHash = Min(hash_length, frame_num)
    /\ beam = cut_to_size(new_beam, beam_size, Min(hash_length, frame_num))
    /\ \A k \in 1 .. Len(new_beam) : UsedHash <= Len(new_beam[k].history)

(* ====================== properties: the tie-break ======================= *)
(* C18: the counter for the next push is odd (1, advanced by 2 at a time)  *)
(* and larger than every counter handed out so far; the root carries 0;    *)
(* no two nodes in the queue, and no queued node and the node popped last, *)
(* share a counter; so no comparison of two nodes gets as far as the flip  *)
(* sets, and of the nodes with the cost of the node popped last, that node *)
(* had the smallest counter.                                               *)
C18_TieBreakCounters ==
  LET q == gen.q
  IN /\ gen.num % 2 = 1
     /\ \A k \in 1 .. Len(q) : q[k].num < gen.num
     /\ \A j, k \in 1 .. Len(q) :
          j # k => q[j].num # q[k].num /\ ~TupleCmpRaises(q[j], q[k])
     /\ Len(yielded) = 2 => gen.cur.num = 0
     /\ gen.pc = "loop" =>
          /\ gen.cur.num < gen.num
          /\ \A k \in 1 .. Len(q) :
               /\ q[k].num # gen.cur.num
               /\ ~TupleCmpRaises(gen.cur, q[k])
               /\ FEq(q[k].l, gen.cur.l) => gen.cur.num < q[k].num

(* a node popped ahead of a queued node of the same finite cost, with two  *)
(* expansions behind it                                                    *)
C18_Witness ==
  /\ gen.pc = "loop"
  /\ gen.num >= 3
  /\ \E k \in 1 .. Len(gen.q) :
       /\ IsFinite(gen.cur.l)
       /\ gen.q[k].l = gen.cur.l
       /\ gen.cur.num < gen.q[k].num

(* ================ properties: the acoustic-only shortcut ================ *)
CandidateSet(bt) == { bt[k] : k \in 1 .. Len(bt) }

(* C19: under joint sampling with acoustic weight 1.0 an iteration over a  *)
(* beam that has a first state gathers, from the one shared pool, the same *)
(* set of (state, sample, log_prob) candidates as enumerating for every    *)
(* state of the beam with the configured weight, and the same number.      *)
C19_SharedPoolEquivalent ==
  [][ (DecodeFrame /\ sampling_method = "joint" /\ weight[1] = WDen /\ beam # << >>) =>
        LET perstate == StateCandidates(beam, frame', weight, branch_factor, FALSE, << >>)
        IN /\ status' \in {"running", "ScorerError"}
           /\ CandidateSet(batch') = CandidateSet(perstate)
           /\ Len(batch') = Len(perstate)
    ]_vars

(* a second frame decoded on the shortcut: two states in the beam with     *)
(* different priors, two samples each, scored differently                  *)
C19_Witness ==
  /\ driver = "decode" /\ sampling_method = "joint" /\ weight[1] = WDen
  /\ status = "running"
  /\ frame_num = 2
  /\ Cardinality(BatchStates(batch)) = 2
  /\ \E s, t \in BatchStates(batch) : s.prior # t.prior
  /\ Len(batch) = 4
  /\ \E j, k \in 1 .. Len(batch) :
       IsFinite(batch[j].log_prob) /\ batch[j].log_prob # batch[k].log_prob

(* ===================== properties: the union pools ====================== *)
(* C20: in every iteration under union sampling no state of the beam gets  *)
(* more than branch_factor candidates, and no more than                    *)
(* floor(branch_factor / 2) from one pool (the batch holds one pool alone  *)
(* when the overlap test stopped the iteration after the shared pool, and  *)
(* when the identity test for "union" selected a single pool).             *)
C20_UnionHalvedPools ==
  [][ (DecodeFrame /\ sampling_method = "union") =>
        \A j \in 1 .. Len(beam) :
          /\ CountFor(beam[j], batch') <= branch_factor
          /\ (status' = "ValueError" \/ ~is_union) =>
               CountFor(beam[j], batch') <= branch_factor \div 2
    ]_vars

(* a union frame with an odd branch factor of 5 or more: the pool of every *)
(* state is cut at floor(branch_factor / 2), below the number of samples   *)
C20_Witness ==
  /\ driver = "decode" /\ sampling_method = "union"
  /\ branch_factor % 2 = 1
  /\ branch_factor \div 2 >= 2
  /\ branch_factor \div 2 < 2 ^ NumPitch
  /\ batch # << >>
  /\ \A s \in BatchStates(batch) : CountFor(s, batch) = branch_factor \div 2

====
